---------------------------- MODULE Spec2Model ----------------------------
(***************************************************************************)
(* A model of ge_releaser's release-prep core:                             *)
(*   changelog.py  ChangelogCommit (title classification, attribution,     *)
(*                 sort key, bullet rendering), ChangelogEntry (assembly,  *)
(*                 rendering, splice into a changelog file);               *)
(*   prep.py       _collect_prs_since_last_release (window collection),    *)
(*                 prep (the sequence of steps of one release-prep run).   *)
(*                                                                         *)
(* Python strings are sequences of one-character strings, so that          *)
(* substring tests, regular-expression matching, upper-casing and          *)
(* formatting are computed rather than assumed.                            *)
(*                                                                         *)
(* The module holds five specifications over the same variables, one per   *)
(* operation under study: SpecClassify, SpecAssemble, SpecCollect,         *)
(* SpecWrite and SpecPrep.  A variable a specification does not use is     *)
(* held at Unused.                                                         *)
(***************************************************************************)
EXTENDS Integers, Sequences, FiniteSets, TLC

VARIABLES
    pc,               \* position of the operation under study
    pr,               \* ChangelogCommit.__init__: the PullRequest argument
    teams_file,       \* ChangelogCommit.__init__: text of the TEAMS file
    commit,           \* ChangelogCommit.__init__: the object's attributes
    pull_requests,    \* ChangelogEntry.__init__: the pull_requests argument
    entry,            \* ChangelogEntry.__init__: self.commits, or the raise
    merged_prs,       \* _collect_prs_since_last_release: the feed
    last_release,     \* _collect_prs_since_last_release: last_release
    idx,              \* _collect_prs_since_last_release: feed position
    counter,          \* _collect_prs_since_last_release: counter
    recent_prs,       \* _collect_prs_since_last_release: recent_prs
    outfile,          \* ChangelogEntry.write: extension of outfile
    current_version,  \* ChangelogEntry.write: current_version
    release_version,  \* ChangelogEntry.write: release_version
    file0,            \* ChangelogEntry.write: lines read from outfile
    file,             \* ChangelogEntry.write: lines of outfile on disk
    outcome,          \* ChangelogEntry.write: how the call ended
    run               \* prep: the state of one release-prep run

classifyVars == <<pr, teams_file, commit>>
assembleVars == <<pull_requests, entry>>
collectVars  == <<merged_prs, last_release, idx, counter, recent_prs>>
writeVars    == <<outfile, current_version, release_version, file0, file, outcome>>
vars == <<pc, classifyVars, assembleVars, collectVars, writeVars, run>>

Unused == "unused"

ClassifyUnused == pr = Unused /\ teams_file = Unused /\ commit = Unused
AssembleUnused == pull_requests = Unused /\ entry = Unused
CollectUnused ==
    /\ merged_prs = Unused /\ last_release = Unused /\ idx = Unused
    /\ counter = Unused /\ recent_prs = Unused
WriteUnused ==
    /\ outfile = Unused /\ current_version = Unused /\ release_version = Unused
    /\ file0 = Unused /\ file = Unused /\ outcome = Unused

(***************************************************************************)
(* Bounds of the model.                                                    *)
(***************************************************************************)
MaxTextLen  == 2    \* length of the text after a bracketed title prefix
MaxRawLen   == 3    \* length of a free-form title
MaxLoginLen == 2    \* length of an author login
MaxTeamsLen == 3    \* length of the TEAMS file
MaxPrNumber == 12   \* largest pull request number
MaxPrs      == 3    \* pull requests handed to ChangelogEntry
MaxFeed     == 6    \* entries of the pull request feed
MaxDocLen   == 4    \* lines of a changelog file
MaxVersion  == 3    \* largest version number of a release-prep run

(***************************************************************************)
(* Strings.                                                                *)
(***************************************************************************)
\* All sequences over S of length lo..hi.
SeqsOf(S, lo, hi) == UNION {[1..n -> S] : n \in lo..hi}

LowerLetters == <<"a","b","c","d","e","f","g","i","k","m","n","o","r","s","t","u","x">>
UpperLetters == <<"A","B","C","D","E","F","G","I","K","M","N","O","R","S","T","U","X">>

Range(s) == {s[i] : i \in DOMAIN s}

\* [a-zA-Z], over the letters of the model's alphabet
IsLetter(c) == c \in Range(LowerLetters) \cup Range(UpperLetters)

\* str.upper() of one character
UpperChar(c) ==
    IF c \in Range(LowerLetters)
    THEN UpperLetters[CHOOSE i \in DOMAIN LowerLetters : LowerLetters[i] = c]
    ELSE c

\* str.upper()
Upper(s) == [i \in DOMAIN s |-> UpperChar(s[i])]

\* s[i:] with a 0-based Python index i in 0..len(s)
From(s, i) == SubSeq(s, i + 1, Len(s))

\* s[:i] with a 0-based Python index i in 0..len(s)
UpTo(s, i) == SubSeq(s, 1, i)

\* `sub in s` for Python strings
Contains(s, sub) ==
    \E k \in 0..(Len(s) - Len(sub)) : SubSeq(s, k + 1, k + Len(sub)) = sub

\* s.endswith(suffix)
EndsWith(s, suffix) ==
    Len(s) >= Len(suffix) /\ SubSeq(s, Len(s) - Len(suffix) + 1, Len(s)) = suffix

IsSpace(c) == c \in {" ", "\n", "\t"}

\* str.strip()
RECURSIVE LStrip(_)
LStrip(s) == IF s # <<>> /\ IsSpace(Head(s)) THEN LStrip(Tail(s)) ELSE s
RECURSIVE RStrip(_)
RStrip(s) ==
    IF s # <<>> /\ IsSpace(s[Len(s)]) THEN RStrip(SubSeq(s, 1, Len(s) - 1)) ELSE s
Strip(s) == LStrip(RStrip(s))

Digits == <<"0","1","2","3","4","5","6","7","8","9">>

\* str(n) for a natural number n
RECURSIVE Str(_)
Str(n) == IF n < 10 THEN <<Digits[n + 1]>> ELSE Str(n \div 10) \o <<Digits[(n % 10) + 1]>>

(***************************************************************************)
(* ChangelogCategory.                                                      *)
(***************************************************************************)
\* enum members in declaration order
ChangelogCategory == <<"BREAKING", "FEATURE", "BUGFIX", "DOCS", "MAINTENANCE">>

\* the member's name (and value) as a Python string
MemberName(c) ==
    CASE c = "BREAKING"    -> <<"B","R","E","A","K","I","N","G">>
      [] c = "FEATURE"     -> <<"F","E","A","T","U","R","E">>
      [] c = "BUGFIX"      -> <<"B","U","G","F","I","X">>
      [] c = "DOCS"        -> <<"D","O","C","S">>
      [] c = "MAINTENANCE" -> <<"M","A","I","N","T","E","N","A","N","C","E">>

\* type_ in ChangelogCategory.__members__
IsMember(type_) == \E c \in Range(ChangelogCategory) : MemberName(c) = type_

\* ChangelogCategory[type_]
Member(type_) == CHOOSE c \in Range(ChangelogCategory) : MemberName(c) = type_

(***************************************************************************)
(* ChangelogCommit.                                                        *)
(***************************************************************************)
\* Length of the run of letters at the start of s.
RECURSIVE LetterRun(_)
LetterRun(s) == IF s # <<>> /\ IsLetter(Head(s)) THEN 1 + LetterRun(Tail(s)) ELSE 0

\* `.*` at the start of s: everything up to the first line break
RECURSIVE DotStar(_)
DotStar(s) == IF s = <<>> \/ Head(s) = "\n" THEN <<>> ELSE <<Head(s)>> \o DotStar(Tail(s))

\* re.match(r"\[([a-zA-Z]+)\] ?(.*)", title): the match's groups 1 and 2, or
\* None.  The letters are followed by "]", which is no letter, so group 1 is
\* the whole run of letters; " ?" is greedy and ".*" never forces it back.
ReMatch(title) ==
    LET k     == LetterRun(Tail(title))
        after == From(title, k + 2)
        rest  == IF after # <<>> /\ Head(after) = " " THEN Tail(after) ELSE after
    IN  IF /\ title # <<>>
           /\ Head(title) = "["
           /\ k >= 1
           /\ Len(title) >= k + 2
           /\ title[k + 2] = "]"
        THEN [matched |-> TRUE, type_ |-> SubSeq(title, 2, k + 1), desc |-> DotStar(rest)]
        ELSE [matched |-> FALSE, type_ |-> <<>>, desc |-> <<>>]

\* An object none of whose attributes is set.
NoAttrs ==
    [attrs |-> {}, pr_type |-> "MAINTENANCE", desc |-> <<>>, number |-> 0,
     merge_timestamp |-> 0, attribution |-> <<>>]

\* pr.user.login not in teams
NotInTeams(login, teams) == ~Contains(teams, login)

\* f" (thanks @{pr.user.login})" if pr.user.login not in teams else ""
Attribution(login, teams) ==
    IF NotInTeams(login, teams)
    THEN <<" ","(","t","h","a","n","k","s"," ","@">> \o login \o <<")">>
    ELSE <<>>

\* PrType without type_ = type_.upper()
PrTypeCaseSensitive(type_) == IF IsMember(type_) THEN Member(type_) ELSE "MAINTENANCE"

\* the category a matched bracket token selects
PrType(type_) == IF IsMember(Upper(type_)) THEN Member(Upper(type_)) ELSE "MAINTENANCE"

\* ChangelogCommit.__init__(pr, github_org): the attributes of the new object.
\* `attrs` is the set of attributes that were assigned.
ChangelogCommit(p, teamsText) ==
    LET teams == Strip(teamsText)
        m     == ReMatch(p.title)
        rest  == [number |-> p.number, merge_timestamp |-> p.merged_at,
                  attribution |-> Attribution(p.login, teams)]
        all   == {"pr_type", "desc", "number", "merge_timestamp", "attribution"}
    IN  IF p.title[1] = "["
        THEN IF m.matched
             THEN [attrs |-> all, pr_type |-> PrType(m.type_), desc |-> m.desc] @@ rest
             ELSE NoAttrs   \* except AttributeError: print(...); return
        ELSE [attrs |-> all, pr_type |-> "MAINTENANCE", desc |-> p.title] @@ rest

\* categories[self.pr_type] in sort_key
CategoryRank(c) == CHOOSE i \in DOMAIN ChangelogCategory : ChangelogCategory[i] = c

\* ChangelogCommit.sort_key
sort_key(c) == <<CategoryRank(c.pr_type), c.merge_timestamp>>

\* ChangelogCommit.__str__
CommitStr(c) ==
    <<"*"," ","[">> \o MemberName(c.pr_type) \o <<"]"," ">> \o c.desc
        \o <<" ","(","#">> \o Str(c.number) \o <<")">> \o c.attribution

(***************************************************************************)
(* SpecClassify: one construction of a ChangelogCommit.                    *)
(***************************************************************************)
LowerChar(c) ==
    IF c \in Range(UpperLetters)
    THEN LowerLetters[CHOOSE i \in DOMAIN UpperLetters : UpperLetters[i] = c]
    ELSE c

\* Bracket tokens: every category name in upper case, in lower case and
\* capitalised, and two tokens that name no category.
BracketTokens ==
    UNION {{MemberName(c),
            [i \in DOMAIN MemberName(c) |-> LowerChar(MemberName(c)[i])],
            [i \in DOMAIN MemberName(c) |->
                IF i = 1 THEN MemberName(c)[i] ELSE LowerChar(MemberName(c)[i])]}
           : c \in Range(ChangelogCategory)}
    \cup {<<"x">>, <<"f","i","x">>}

TitleTexts == SeqsOf({"a", " ", "]"}, 0, MaxTextLen)

\* "[token]text" and "[token] text"
BracketTitles ==
    {<<"[">> \o tok \o <<"]">> \o sep \o text :
        tok \in BracketTokens, sep \in {<<>>, <<" ">>}, text \in TitleTexts}

\* free-form titles; GitHub titles are non-empty and hold no line break
RawTitles == SeqsOf({"[", "]", "a", " ", "1"}, 1, MaxRawLen)

Titles == BracketTitles \cup RawTitles

SampleTitles == {<<"a">>, <<"[","d","o","c","s","]"," ","a">>, <<"[","1","]">>}

\* GitHub logins are non-empty and hold no white space
Logins == SeqsOf({"a", "b"}, 1, MaxLoginLen)

TeamsFiles == SeqsOf({"a", "b", "\n"}, 0, MaxTeamsLen)

PullRequest(title, number, merged_at, login) ==
    [title |-> title, number |-> number, merged_at |-> merged_at, login |-> login]

\* Every title with one author, and every author and TEAMS file with a few
\* titles.
ClassifyInputs ==
    {<<PullRequest(t, 1, 1, <<"a">>), tf>> : t \in Titles, tf \in {<<"a","\n">>, <<"b">>}}
    \cup {<<PullRequest(t, n, 1, l), tf>> :
            t \in SampleTitles, n \in {1, MaxPrNumber}, l \in Logins, tf \in TeamsFiles}

InitClassify ==
    /\ pc = "new"
    /\ \E inp \in ClassifyInputs : pr = inp[1] /\ teams_file = inp[2]
    /\ commit = NoAttrs
    /\ AssembleUnused /\ CollectUnused /\ WriteUnused /\ run = Unused

\* ChangelogCommit(pr, github_org)
Construct ==
    /\ pc = "new"
    /\ commit' = ChangelogCommit(pr, teams_file)
    /\ pc' = "constructed"
    /\ UNCHANGED <<pr, teams_file, assembleVars, collectVars, writeVars, run>>

NextClassify == Construct

SpecClassify == InitClassify /\ [][NextClassify]_vars

AllAttrs == {"pr_type", "desc", "number", "merge_timestamp", "attribution"}

\* title = "[" token "]" ..., token a non-empty run of letters of length k
BracketAt(title, k) ==
    /\ k >= 1
    /\ Len(title) >= k + 2
    /\ title[1] = "["
    /\ \A i \in 2..(k + 1) : IsLetter(title[i])
    /\ title[k + 2] = "]"

\* the title's bracket content matches the bracket pattern
MatchesBracketPattern(title) == \E k \in 1..Len(title) : BracketAt(title, k)

\* C7: a title that does not start with "[", or starts with "[" and fails the
\* bracket pattern, still yields a complete record: category MAINTENANCE,
\* description the full title, number, mergedAt and attribution set.
C7_Claim ==
    (pc = "constructed" /\ (pr.title[1] # "[" \/ ~MatchesBracketPattern(pr.title)))
        => /\ commit.attrs = AllAttrs
           /\ commit.pr_type = "MAINTENANCE"
           /\ commit.desc = pr.title
           /\ commit.number = pr.number
           /\ commit.merge_timestamp = pr.merged_at

\* A title that does not start with "[" yields a complete MAINTENANCE record
\* with the full title.
C7_Untagged ==
    (pc = "constructed" /\ pr.title[1] # "[") =>
        /\ commit.attrs = AllAttrs
        /\ commit.pr_type = "MAINTENANCE"
        /\ commit.desc = pr.title

\* C8: a title "[<token>] <text>", <token> a non-empty run of letters, yields
\* the category <token> names case-insensitively, MAINTENANCE when it names
\* none, and in both cases the description <text>; the record is complete.
C8_BracketTitle ==
    pc = "constructed" =>
        \A k \in 1..Len(pr.title) :
            (BracketAt(pr.title, k) /\ Len(pr.title) >= k + 3 /\ pr.title[k + 3] = " ")
            => LET token == SubSeq(pr.title, 2, k + 1)
                   text  == From(pr.title, k + 3)
                   named == {c \in Range(ChangelogCategory) :
                                Upper(MemberName(c)) = Upper(token)}
               IN  /\ commit.attrs = AllAttrs
                   /\ commit.desc = text
                   /\ \A c \in named : commit.pr_type = c
                   /\ named = {} => commit.pr_type = "MAINTENANCE"

\* a known category written in lower case has been classified
C8_Witness ==
    /\ pc = "constructed"
    /\ pr.title = <<"[","b","u","g","f","i","x","]"," ","a">>
    /\ commit.pr_type = "BUGFIX"
    /\ commit.desc = <<"a">>

Thanks(login) == <<" ","(","t","h","a","n","k","s"," ","@">> \o login \o <<")">>

\* The attribution of every record whose construction completes.
C9_WhenConstructed ==
    (pc = "constructed" /\ commit.attrs = AllAttrs) =>
        /\ commit.attribution = (IF Contains(teams_file, pr.login) THEN <<>> ELSE Thanks(pr.login))
        /\ EndsWith(CommitStr(commit),
                    <<"(","#">> \o Str(pr.number) \o <<")">> \o commit.attribution)

\* C9: for every login and blob the record's attribution suffix is "" exactly
\* when the login is a substring of the blob and " (thanks @<login>)"
\* otherwise, and the bullet line ends with "(#<number>)" and that suffix.
C9_Claim ==
    pc = "constructed" =>
        /\ "attribution" \in commit.attrs
        /\ commit.attribution = (IF Contains(teams_file, pr.login) THEN <<>> ELSE Thanks(pr.login))
        /\ EndsWith(CommitStr(commit),
                    <<"(","#">> \o Str(pr.number) \o <<")">> \o commit.attribution)

(***************************************************************************)
(* ChangelogEntry.__init__ and SpecAssemble.                               *)
(***************************************************************************)
\* a < b for two sort keys (Python's tuple comparison)
KeyLess(a, b) == a[1] < b[1] \/ (a[1] = b[1] /\ a[2] < b[2])

\* x placed into the sorted list s after every element that is not greater
RECURSIVE InsertSorted(_, _)
InsertSorted(s, x) ==
    IF s = <<>> THEN <<x>>
    ELSE IF KeyLess(sort_key(x), sort_key(Head(s)))
         THEN <<x>> \o s
         ELSE <<Head(s)>> \o InsertSorted(Tail(s), x)

\* list.sort(key=ChangelogCommit.sort_key): a stable sort
RECURSIVE SortCommits(_)
SortCommits(s) ==
    IF s = <<>> THEN <<>>
    ELSE InsertSorted(SortCommits(SubSeq(s, 1, Len(s) - 1)), s[Len(s)])

\* sort_key reads self.pr_type and self.merge_timestamp
HasSortKey(c) == {"pr_type", "merge_timestamp"} \subseteq c.attrs

\* ChangelogEntry.__init__(github_org, pull_requests): self.commits, or the
\* AttributeError that sort_key raises on an object without attributes
ChangelogEntry(prs, teamsText) ==
    LET changelog_commits == [i \in DOMAIN prs |-> ChangelogCommit(prs[i], teamsText)]
    IN  IF \A i \in DOMAIN prs : HasSortKey(changelog_commits[i])
        THEN [raised |-> "", commits |-> SortCommits(changelog_commits)]
        ELSE [raised |-> "AttributeError", commits |-> <<>>]

\* one title per category, one without a tag and one whose bracket content
\* does not parse
AssembleTitles ==
    {<<"[">> \o MemberName(c) \o <<"]">> : c \in Range(ChangelogCategory)}
    \cup {<<"a">>, <<"[","1","]">>}

MergeTimes == {1, 2}

\* lists of pull requests, numbered by position
PrLists ==
    {[i \in DOMAIN l |-> PullRequest(l[i][1], i, l[i][2], <<"b">>)] :
        l \in SeqsOf(AssembleTitles \X MergeTimes, 0, MaxPrs)}

InitAssemble ==
    /\ pc = "new"
    /\ pull_requests \in PrLists
    /\ teams_file = <<"a", "\n">>
    /\ entry = [raised |-> "", commits |-> <<>>]
    /\ pr = Unused /\ commit = Unused
    /\ CollectUnused /\ WriteUnused /\ run = Unused

\* ChangelogEntry(github_org, relevant_prs)
Assemble ==
    /\ pc = "new"
    /\ entry' = ChangelogEntry(pull_requests, teams_file)
    /\ pc' = IF entry'.raised = "" THEN "assembled" ELSE "raised"
    /\ UNCHANGED <<classifyVars, pull_requests, collectVars, writeVars, run>>

NextAssemble == Assemble

SpecAssemble == InitAssemble /\ [][NextAssemble]_vars

\* s is sorted by (category precedence, mergedAt), records equal in both in
\* the order of their numbers (the input positions)
SortedStable(s) ==
    \A i, j \in DOMAIN s :
        i < j => \/ CategoryRank(s[i].pr_type) < CategoryRank(s[j].pr_type)
                 \/ /\ s[i].pr_type = s[j].pr_type
                    /\ s[i].merge_timestamp < s[j].merge_timestamp
                 \/ /\ s[i].pr_type = s[j].pr_type
                    /\ s[i].merge_timestamp = s[j].merge_timestamp
                    /\ s[i].number < s[j].number

\* s holds one record per pull request of prs
PermutationOfRecords(s, prs) ==
    /\ Len(s) = Len(prs)
    /\ \A i \in DOMAIN prs :
        \E j \in DOMAIN s :
            /\ s[j].number = prs[i].number
            /\ s[j].attrs = AllAttrs
            /\ s[j].merge_timestamp = prs[i].merged_at

\* C6: for every list of collected pull requests the assembled changelog is
\* a permutation of their change records, sorted ascending by (category
\* precedence, mergedAt), records equal in both in input order.
C6_Claim ==
    pc # "new" =>
        /\ entry.raised = ""
        /\ PermutationOfRecords(entry.commits, pull_requests)
        /\ SortedStable(entry.commits)

\* The ordering holds of every changelog that is assembled.
C6_WhenAssembled ==
    pc = "assembled" =>
        /\ PermutationOfRecords(entry.commits, pull_requests)
        /\ SortedStable(entry.commits)

(***************************************************************************)
(* _collect_prs_since_last_release and SpecCollect.                        *)
(***************************************************************************)
threshold == 5

\* An Optional value: None is the empty sequence, a value v is <<v>>.
None == <<>>
Some(v) == <<v>>
Value(o) == o[1]

\* a closed pull request of the feed; merged_at is None unless it is merged
FeedEntry(number, merged, merged_at) ==
    [number |-> number, merged |-> merged, merged_at |-> merged_at]

\* merge times around the last release's creation time
FeedTimes == {0, 1, 2}
ReleaseTimes == {1}

EntryKinds == {<<FALSE, None>>} \cup {<<TRUE, Some(t)>> : t \in FeedTimes}

\* feeds, their entries numbered by position
Feeds ==
    {[i \in DOMAIN l |-> FeedEntry(i, l[i][1], l[i][2])] :
        l \in SeqsOf(EntryKinds, 0, MaxFeed)}

InitCollect ==
    /\ pc = "scan"
    /\ merged_prs \in Feeds
    /\ last_release \in ReleaseTimes
    /\ idx = 1
    /\ counter = 0
    /\ recent_prs = <<>>
    /\ ClassifyUnused /\ AssembleUnused /\ WriteUnused /\ run = Unused

\* if pr.merged_at < last_release
IsOld(p, last) == Value(p.merged_at) < last

\* IsRecent with >= for >
IsRecentOrEqual(p, last) == Value(p.merged_at) >= last

\* if pr.merged_at > last_release
IsRecent(p, last) == Value(p.merged_at) > last

\* if not pr.merged
NotMerged(p) == ~p.merged

\* the feed is exhausted: the for loop ends and recent_prs is returned
LoopEnd ==
    /\ pc = "scan"
    /\ idx > Len(merged_prs)
    /\ pc' = "returned"
    /\ UNCHANGED <<classifyVars, assembleVars, collectVars, writeVars, run>>

\* if counter >= threshold: break
LoopBreak ==
    /\ pc = "scan"
    /\ idx <= Len(merged_prs)
    /\ counter >= threshold
    /\ pc' = "returned"
    /\ UNCHANGED <<classifyVars, assembleVars, collectVars, writeVars, run>>

\* if not pr.merged: continue
LoopSkip ==
    /\ pc = "scan"
    /\ idx <= Len(merged_prs)
    /\ counter < threshold
    /\ NotMerged(merged_prs[idx])
    /\ idx' = idx + 1
    /\ UNCHANGED <<pc, classifyVars, assembleVars, merged_prs, last_release, counter,
                   recent_prs, writeVars, run>>

\* a merged pull request: the two tests on its merge time
LoopMerged ==
    /\ pc = "scan"
    /\ idx <= Len(merged_prs)
    /\ counter < threshold
    /\ ~NotMerged(merged_prs[idx])
    /\ counter' = IF IsOld(merged_prs[idx], last_release) THEN counter + 1 ELSE counter
    /\ recent_prs' = IF IsRecent(merged_prs[idx], last_release)
                     THEN Append(recent_prs, merged_prs[idx])
                     ELSE recent_prs
    /\ idx' = idx + 1
    /\ UNCHANGED <<pc, classifyVars, assembleVars, merged_prs, last_release, writeVars, run>>

NextCollect == LoopEnd \/ LoopBreak \/ LoopSkip \/ LoopMerged

SpecCollect == InitCollect /\ [][NextCollect]_vars

\* merged, with a merge time strictly after the last release
Fresh(p) == p.merged /\ Value(p.merged_at) > last_release

\* merged, with a merge time at or before the last release
StaleOrEqual(p) == p.merged /\ Value(p.merged_at) <= last_release

\* merged, with a merge time strictly before the last release
StrictlyOld(p) == p.merged /\ Value(p.merged_at) < last_release

\* the positions of the feed's entries that are merged at or before the last
\* release, and of those merged strictly before it
StaleOrEqualAt == {i \in DOMAIN merged_prs : StaleOrEqual(merged_prs[i])}
StrictlyOldAt == {i \in DOMAIN merged_prs : StrictlyOld(merged_prs[i])}

\* the number of positions of S among the first n of the feed
CountIn(n, S) == Cardinality(S \cap (1..n))

\* the number of entries scanned when the count of positions of S reaches
\* the threshold, or the whole feed when it never does
Cutoff(S) ==
    IF \E n \in 0..Len(merged_prs) : CountIn(n, S) >= threshold
    THEN CHOOSE n \in 0..Len(merged_prs) :
            /\ CountIn(n, S) >= threshold
            /\ \A m \in 0..(n - 1) : CountIn(m, S) < threshold
    ELSE Len(merged_prs)

\* C4: scanning stops exactly when the count of scanned merged PRs with a
\* merge time at or before lastReleaseTimestamp (a time equal to it counts)
\* reaches 5: the entries scanned are those up to that point, and what is
\* returned is the fresh PRs among them and nothing after them.
C4_Claim ==
    pc = "returned" =>
        /\ idx - 1 = Cutoff(StaleOrEqualAt)
        /\ recent_prs = SelectSeq(SubSeq(merged_prs, 1, Cutoff(StaleOrEqualAt)), Fresh)

\* The cutoff as the code counts it: merge times strictly before the last
\* release.
C4_StrictCutoff ==
    pc = "returned" =>
        /\ idx - 1 = Cutoff(StrictlyOldAt)
        /\ recent_prs = SelectSeq(SubSeq(merged_prs, 1, Cutoff(StrictlyOldAt)), Fresh)

\* every fresh PR of the feed is preceded by at most threshold-1 merged PRs
\* with a merge time at or before the last release
FewStaleBeforeFresh ==
    \A i \in DOMAIN merged_prs :
        Fresh(merged_prs[i]) => CountIn(i - 1, StaleOrEqualAt) <= threshold - 1

\* C5: when every fresh PR is preceded by at most 4 stale merged PRs, what is
\* returned is exactly the fresh merged PRs, each once and in feed order;
\* unmerged entries are never returned and never advance the counter, and no
\* returned PR has a merge time at or before lastReleaseTimestamp.
C5_Window ==
    /\ \A j \in DOMAIN recent_prs :
        recent_prs[j].merged /\ Value(recent_prs[j].merged_at) > last_release
    /\ counter <= CountIn(idx - 1, StaleOrEqualAt)
    /\ (pc = "returned" /\ FewStaleBeforeFresh) => recent_prs = SelectSeq(merged_prs, Fresh)

\* four stale PRs and an unmerged entry came before a fresh PR that was
\* returned
C5_Witness ==
    /\ pc = "returned"
    /\ FewStaleBeforeFresh
    /\ counter = threshold - 1
    /\ Len(recent_prs) >= 1
    /\ \E i \in 1..(recent_prs[Len(recent_prs)].number - 1) : ~merged_prs[i].merged
    /\ CountIn(recent_prs[Len(recent_prs)].number - 1, StrictlyOldAt) = threshold - 1

(***************************************************************************)
(* ChangelogEntry.write, the renderers, and SpecWrite.                     *)
(***************************************************************************)
\* _render_contents: one line per commit
_render_contents(commits) == [i \in DOMAIN commits |-> CommitStr(commits[i]) \o <<"\n">>]

\* _render_to_md
_render_to_md(commits, rel) ==
    <<(<<"\n","#","#","#"," ">> \o rel \o <<"\n">>)>> \o _render_contents(commits)

\* the divider line of _render_to_rst
Divider == [i \in 1..17 |-> "-"] \o <<"\n">>

\* _render_to_rst
_render_to_rst(commits, rel) ==
    <<(<<"\n">> \o rel \o <<"\n">>), Divider>> \o _render_contents(commits)

\* PointFor without the step back by one line
PointAtLine(i) == i

\* insertion_point = i - 1, for the 0-based index i of a matching line
PointFor(i) == i - 1

\* the loop over enumerate(contents) from 0-based index i on, insertion_point
\* being ip so far
RECURSIVE ScanFrom(_, _, _, _)
ScanFrom(contents, cur, i, ip) ==
    IF i >= Len(contents) THEN ip
    ELSE ScanFrom(contents, cur, i + 1,
                  IF Contains(contents[i + 1], cur) THEN PointFor(i) ELSE ip)

\* InsertionPoint with a loop that stops at the first matching line
InsertionPointFirstMatch(contents, cur) ==
    IF \E i \in 0..(Len(contents) - 1) : Contains(contents[i + 1], cur)
    THEN PointFor(CHOOSE i \in 0..(Len(contents) - 1) :
                    /\ Contains(contents[i + 1], cur)
                    /\ \A j \in 0..(i - 1) : ~Contains(contents[j + 1], cur))
    ELSE 0

\* insertion_point after the loop
InsertionPoint(contents, cur) == ScanFrom(contents, cur, 0, 0)

\* PointAccepted with >= for >
PointAcceptedAtZero(ip) == ip >= 0

\* assert insertion_point > 0
PointAccepted(ip) == ip > 0

\* contents[ip:ip] = block, for ip in 0..len(contents)
Splice(contents, ip, block) == UpTo(contents, ip) \o block \o From(contents, ip)

MdSuffix  == <<".","m","d">>
RstSuffix == <<".","r","s","t">>

\* ChangelogEntry.write(outfile, current_version, release_version) on a file
\* holding `contents`: the exception raised ("" for none) and the lines of
\* the file afterwards
write(commits, path, cur, rel, contents) ==
    LET ip == InsertionPoint(contents, cur)
    IN  IF ~PointAccepted(ip)
        THEN [raised |-> "AssertionError", contents |-> contents]
        ELSE IF EndsWith(path, MdSuffix)
        THEN [raised |-> "", contents |-> Splice(contents, ip, _render_to_md(commits, rel))]
        ELSE IF EndsWith(path, RstSuffix)
        THEN [raised |-> "", contents |-> Splice(contents, ip, _render_to_rst(commits, rel))]
        ELSE [raised |-> "Exception", contents |-> contents]

\* lines of a changelog file, as readlines() returns them
LineTexts == {<<>>, <<"x">>, <<"1">>, <<"x","1">>, <<"1","1">>, <<"1","x">>}
Lines == {t \o <<"\n">> : t \in LineTexts}
Documents == SeqsOf(Lines, 0, MaxDocLen)

Paths == {<<"c">> \o MdSuffix, <<"c">> \o RstSuffix, <<"c",".","t","x","t">>}

\* the changelog entries written: an empty one and one with one commit
WriteEntries ==
    {ChangelogEntry(prs, <<"a","\n">>).commits :
        prs \in {<<>>, <<PullRequest(<<"[","d","o","c","s","]"," ","a">>, 1, 1, <<"b">>)>>}}

InitWrite ==
    /\ pc = "call"
    /\ outfile \in Paths
    /\ current_version \in {<<"1">>, <<"1","1">>}
    /\ release_version = <<"2">>
    /\ file0 \in Documents
    /\ file = file0
    /\ outcome = ""
    /\ entry \in {[raised |-> "", commits |-> c] : c \in WriteEntries}
    /\ pull_requests = Unused
    /\ ClassifyUnused /\ CollectUnused /\ run = Unused

\* changelog_entry.write(outfile, current_version, release_version)
Write ==
    /\ pc = "call"
    /\ LET r == write(entry.commits, outfile, current_version, release_version, file0)
       IN  /\ outcome' = r.raised
           /\ file' = r.contents
           /\ pc' = IF r.raised = "" THEN "written" ELSE "raised"
    /\ UNCHANGED <<classifyVars, assembleVars, collectVars, outfile, current_version,
                   release_version, file0, run>>

NextWrite == Write

SpecWrite == InitWrite /\ [][NextWrite]_vars

\* the 0-based indexes of the lines that contain the previous version
MarkerLines == {i \in 0..(Len(file0) - 1) : Contains(file0[i + 1], current_version)}

LastMarker == CHOOSE i \in MarkerLines : \A j \in MarkerLines : j <= i

\* the block rendered for the file's format
Block ==
    IF EndsWith(outfile, MdSuffix)
    THEN _render_to_md(entry.commits, release_version)
    ELSE _render_to_rst(entry.commits, release_version)

Supported == EndsWith(outfile, MdSuffix) \/ EndsWith(outfile, RstSuffix)

\* C1 as stated: after an insertion into a document with a marker line, the
\* document is original[0..m) ++ block ++ original[m..] for the index m of a
\* marker line, so that the block is followed by the marker line.
C1_Claim ==
    pc = "written" =>
        \E m \in MarkerLines :
            /\ file = UpTo(file0, m) \o Block \o From(file0, m)
            /\ file[m + Len(Block) + 1] = file0[m + 1]

\* C1 amended: when the last marker line is at index m >= 2 the document
\* becomes original[0..m-1) ++ block ++ original[m-1..]: every line is kept,
\* in order, and the block is followed by the line before the marker line.
C1_Amended ==
    (pc # "call" /\ MarkerLines # {} /\ LastMarker >= 2 /\ Supported) =>
        /\ pc = "written"
        /\ file = UpTo(file0, LastMarker - 1) \o Block \o From(file0, LastMarker - 1)
        /\ file[LastMarker + Len(Block)] = file0[LastMarker]
        /\ file[LastMarker + Len(Block) + 1] = file0[LastMarker + 1]

\* a block with a commit has been spliced into a document whose only marker
\* line is its third
C1_Witness ==
    /\ pc = "written"
    /\ MarkerLines = {2}
    /\ Len(file0) = 4
    /\ Len(entry.commits) = 1
    /\ Len(file) = Len(file0) + Len(Block)

\* C2: when no line contains the previous version, the call fails with the
\* insertion-point assertion and the file is as it was.
C2_NoMarker ==
    (pc # "call" /\ MarkerLines = {}) =>
        /\ pc = "raised"
        /\ outcome = "AssertionError"
        /\ file = file0

\* the call has failed on a document of several lines without a marker
C2_Witness ==
    /\ pc = "raised"
    /\ MarkerLines = {}
    /\ Len(file0) >= 3
    /\ Supported

\* C10: the splice index is the last marker line's index minus 1 and the
\* write proceeds only when it is positive; a last marker line at index 0 or
\* 1 fails like a missing marker and writes nothing; a write never inserts
\* at index 0 and leaves an original line before the block.
C10_SpliceIndex ==
    /\ pc = "written" =>
        /\ MarkerLines # {}
        /\ LastMarker - 1 > 0
        /\ \A k \in 1..(LastMarker - 1) : file[k] = file0[k]
        /\ SubSeq(file, LastMarker, LastMarker - 1 + Len(Block)) = Block
        /\ Len(file) = Len(file0) + Len(Block)
    /\ (pc # "call" /\ MarkerLines # {} /\ LastMarker <= 1) =>
        /\ outcome = "AssertionError"
        /\ file = file0

\* a write into a document whose second and fourth lines hold the marker:
\* the block starts at index 2
C10_Witness ==
    /\ pc = "written"
    /\ MarkerLines = {1, 3}
    /\ file[1] = file0[1] /\ file[2] = file0[2]
    /\ file[3] = Block[1]

(***************************************************************************)
(* prep and SpecPrep: one release-prep run, step by step.  `run` holds the  *)
(* command's arguments, the files and the repository it works on, and the  *)
(* exception that ended it.  Versions are numbers, written with str.       *)
(***************************************************************************)
Versions == 1..MaxVersion

\* Keys of the release schedule file: today's date as strftime("%Y-%m-%d")
\* writes it, today's date in another format dateutil parses, another day.
ScheduleKeys == {"today-iso", "today-other", "another-day"}

\* dateutil.parser.parse(date).date() == today.date()
IsToday(key) == key \in {"today-iso", "today-other"}

\* the file's entries <<date, version>> in file order, no date twice
Schedules ==
    {s \in SeqsOf(ScheduleKeys \X Versions, 0, 2) :
        \A i, j \in DOMAIN s : i # j => s[i][1] # s[j][1]}

Line(t) == t \o <<"\n">>

\* changelog files: version headings newest first, with and without the
\* headings of versions 1 and 2
PrepDocuments ==
    {<<Line(<<"x">>), Line(<<>>), Line(<<"1">>)>>,
     <<Line(<<"x">>), Line(<<>>), Line(<<"2">>), Line(<<>>), Line(<<"1">>)>>,
     <<Line(<<"2">>), Line(<<"1">>)>>,
     <<Line(<<"x">>)>>}

\* what _collect_prs_since_last_release returns
PrepPrLists ==
    {<<>>,
     <<PullRequest(<<"[","d","o","c","s","]"," ","a">>, 1, 1, <<"b">>)>>,
     <<PullRequest(<<"[","1","]">>, 1, 1, <<"b">>)>>}

NotRaised == [exc |-> "", in |-> ""]

InitPrep ==
    /\ pc = "_determine_version_number"
    /\ run \in [version_number : {None} \cup {Some(v) : v \in Versions},
                schedule : Schedules,
                deployment_version : 1..2,
                changelog_md : PrepDocuments,
                changelog_rst : PrepDocuments,
                relevant_prs : PrepPrLists,
                current_version : {None},
                release_version : {None},
                commits : {<<>>},
                branch : {None},
                written : {{}},
                committed : {FALSE},
                pushed : {FALSE},
                pull_request : {FALSE},
                raised : {NotRaised}]
    /\ ClassifyUnused /\ AssembleUnused /\ CollectUnused /\ WriteUnused

Raise(exc, in) == [exc |-> exc, in |-> in]

notRun == <<classifyVars, assembleVars, collectVars, writeVars>>

\* the first entry of the schedule for today, if any
RECURSIVE ScheduledToday(_)
ScheduledToday(s) ==
    IF s = <<>> THEN None
    ELSE IF IsToday(Head(s)[1]) THEN Some(Head(s)[2]) ELSE ScheduledToday(Tail(s))

\* contents.pop(date_to_remove)
Pop(s, key) == SelectSeq(s, LAMBDA e : e[1] # key)

HasKey(s, key) == \E i \in DOMAIN s : s[i][1] = key

\* _determine_version_number with the version given on the command line
VersionGiven ==
    /\ pc = "_determine_version_number"
    /\ run.version_number # None
    /\ pc' = "checkout_and_update_develop"
    /\ UNCHANGED <<run, notRun>>

\* _parse_release_schedule_file: no entry for today
ScheduleLookupFails ==
    /\ pc = "_determine_version_number"
    /\ run.version_number = None
    /\ ScheduledToday(run.schedule) = None
    /\ run' = [run EXCEPT !.raised = Raise("ValueError", "_parse_release_schedule_file")]
    /\ pc' = "raised"
    /\ UNCHANGED notRun

\* _parse_release_schedule_file: today's entry is found; the file is opened
\* for writing, which empties it, and today's "%Y-%m-%d" key is popped
ScheduleLookup ==
    /\ pc = "_determine_version_number"
    /\ run.version_number = None
    /\ ScheduledToday(run.schedule) # None
    /\ IF HasKey(run.schedule, "today-iso")
       THEN /\ run' = [run EXCEPT !.version_number = ScheduledToday(run.schedule),
                                  !.schedule = Pop(run.schedule, "today-iso"),
                                  !.written = @ \cup {"release_schedule"}]
            /\ pc' = "checkout_and_update_develop"
       ELSE /\ run' = [run EXCEPT !.schedule = <<>>,
                                  !.written = @ \cup {"release_schedule"},
                                  !.raised = Raise("KeyError", "_parse_release_schedule_file")]
            /\ pc' = "raised"
    /\ UNCHANGED notRun

\* checkout_and_update_develop(env.git_repo)
checkout_and_update_develop ==
    /\ pc = "checkout_and_update_develop"
    /\ pc' = "_parse_versions"
    /\ UNCHANGED <<run, notRun>>

\* assert release_version > current_version
VersionOrdered(release, current) == release > current

\* _parse_versions
_parse_versions ==
    /\ pc = "_parse_versions"
    /\ IF VersionOrdered(Value(run.version_number), run.deployment_version)
       THEN /\ run' = [run EXCEPT !.current_version = Some(Str(run.deployment_version)),
                                  !.release_version = Some(Str(Value(run.version_number)))]
            /\ pc' = "_create_and_checkout_release_branch"
       ELSE /\ run' = [run EXCEPT !.raised = Raise("AssertionError", "_parse_versions")]
            /\ pc' = "raised"
    /\ UNCHANGED notRun

\* _create_and_checkout_release_branch
_create_and_checkout_release_branch ==
    /\ pc = "_create_and_checkout_release_branch"
    /\ run' = [run EXCEPT !.branch =
                Some(<<"r","e","l","e","a","s","e","-">> \o Value(run.release_version))]
    /\ pc' = "_update_deployment_version_file"
    /\ UNCHANGED notRun

\* _update_deployment_version_file
_update_deployment_version_file ==
    /\ pc = "_update_deployment_version_file"
    /\ run' = [run EXCEPT !.deployment_version = Value(run.version_number),
                          !.written = @ \cup {"deployment_version"}]
    /\ pc' = "_update_getting_started_snippet"
    /\ UNCHANGED notRun

\* _update_getting_started_snippet
_update_getting_started_snippet ==
    /\ pc = "_update_getting_started_snippet"
    /\ run' = [run EXCEPT !.written = @ \cup {"getting_started_version"}]
    /\ pc' = "_update_changelogs"
    /\ UNCHANGED notRun

\* _update_changelogs: ChangelogEntry(github_org, relevant_prs)
UpdateChangelogsEntry ==
    /\ pc = "_update_changelogs"
    /\ LET e == ChangelogEntry(run.relevant_prs, <<"a","\n">>)
       IN  IF e.raised = ""
           THEN /\ run' = [run EXCEPT !.commits = e.commits]
                /\ pc' = "write_md"
           ELSE /\ run' = [run EXCEPT !.raised = Raise(e.raised, "ChangelogEntry")]
                /\ pc' = "raised"
    /\ UNCHANGED notRun

\* _update_changelogs: changelog_entry.write(CHANGELOG_MD, ...)
UpdateChangelogsMd ==
    /\ pc = "write_md"
    /\ LET r == write(run.commits, <<"c">> \o MdSuffix, Value(run.current_version),
                      Value(run.release_version), run.changelog_md)
       IN  IF r.raised = ""
           THEN /\ run' = [run EXCEPT !.changelog_md = r.contents,
                                      !.written = @ \cup {"changelog_md"}]
                /\ pc' = "write_rst"
           ELSE /\ run' = [run EXCEPT !.raised = Raise(r.raised, "write_md")]
                /\ pc' = "raised"
    /\ UNCHANGED notRun

\* _update_changelogs: changelog_entry.write(CHANGELOG_RST, ...)
UpdateChangelogsRst ==
    /\ pc = "write_rst"
    /\ LET r == write(run.commits, <<"c">> \o RstSuffix, Value(run.current_version),
                      Value(run.release_version), run.changelog_rst)
       IN  IF r.raised = ""
           THEN /\ run' = [run EXCEPT !.changelog_rst = r.contents,
                                      !.written = @ \cup {"changelog_rst"}]
                /\ pc' = "_commit_changes"
           ELSE /\ run' = [run EXCEPT !.raised = Raise(r.raised, "write_rst")]
                /\ pc' = "raised"
    /\ UNCHANGED notRun

\* _commit_changes
_commit_changes ==
    /\ pc = "_commit_changes"
    /\ run' = [run EXCEPT !.committed = TRUE]
    /\ pc' = "_create_pr"
    /\ UNCHANGED notRun

\* _create_pr: push the branch and open the pull request
_create_pr ==
    /\ pc = "_create_pr"
    /\ run' = [run EXCEPT !.pushed = TRUE, !.pull_request = TRUE]
    /\ pc' = "done"
    /\ UNCHANGED notRun

NextPrep ==
    \/ VersionGiven \/ ScheduleLookupFails \/ ScheduleLookup \/ checkout_and_update_develop
    \/ _parse_versions \/ _create_and_checkout_release_branch
    \/ _update_deployment_version_file \/ _update_getting_started_snippet
    \/ UpdateChangelogsEntry \/ UpdateChangelogsMd \/ UpdateChangelogsRst
    \/ _commit_changes \/ _create_pr

SpecPrep == InitPrep /\ [][NextPrep]_vars

\* the run ended in one of the fatal errors of the taxonomy: the version
\* ordering assertion, the schedule lookup, a missing insertion point in
\* either changelog, an unsupported document format
FatalError ==
    \/ run.raised = Raise("AssertionError", "_parse_versions")
    \/ run.raised = Raise("ValueError", "_parse_release_schedule_file")
    \/ run.raised \in {Raise("AssertionError", "write_md"), Raise("AssertionError", "write_rst")}
    \/ run.raised \in {Raise("Exception", "write_md"), Raise("Exception", "write_rst")}

NoMutation ==
    /\ run.branch = None
    /\ run.written = {}
    /\ ~run.committed
    /\ ~run.pushed

\* C3: when a fatal structural or ordering error is raised, no release
\* branch has been created, no file has been written and nothing has been
\* committed or pushed.
C3_Claim == (pc = "raised" /\ FatalError) => NoMutation

\* The schedule lookup failure is raised before any mutation.
C3_ScheduleLookupFirst ==
    run.raised = Raise("ValueError", "_parse_release_schedule_file") => NoMutation

=============================================================================
